---------------------------- MODULE Spec2Model ----------------------------
(***************************************************************************)
(* Model of the ray_tracer crate: the epsilon-tolerant scalar Float, the   *)
(* homogeneous Tuple algebra (src/src/tuples.rs) and the chapter 1         *)
(* projectile loop (src/src/main.rs).                                      *)
(*                                                                         *)
(* An f64 is modelled as a value of a decimal fixed-point format: a finite *)
(* value is an integer count of grid units (Scale units make 1.0), bounded *)
(* in magnitude by MaxFinite, next to the three IEEE special values NaN,   *)
(* +inf and -inf.  Every operation is computed as IEEE-754 computes it on  *)
(* its own grid: the exact result rounded to the nearest representable     *)
(* value (ties to even), overflow to an infinity, underflow to zero,       *)
(* invalid operations (0/0, inf-inf, 0*inf, sqrt of a negative) to NaN.    *)
(* The sign of zero is not modelled: the only divisor the crate ever uses  *)
(* is a magnitude, which is never -0.0.                                    *)
(***************************************************************************)
EXTENDS Integers, Sequences, FiniteSets, TLC

VARIABLES p, e, ticks, pc, call

vars == <<p, e, ticks, pc, call>>

(***************************************************************************)
(* The representation of f64.                                              *)
(***************************************************************************)
\* grid units per 1.0: one unit is 0.000005
Scale == 200000

\* the largest finite magnitude, in grid units (the model's f64::MAX)
MaxFinite == 2100000000

\* the literal 0.00001 of Float::eq, in grid units
EPSILON == Scale \div 100000

NaN == [k |-> "nan", v |-> 0]

PosInf == [k |-> "inf", v |-> 1]

NegInf == [k |-> "inf", v |-> -1]

Fin(n) == [k |-> "fin", v |-> n]

\* the f64 literal num/den (exact for every literal of the crate)
Lit(num, den) == Fin((num * Scale) \div den)

IsNaN(a) == a.k = "nan"

IsInf(a) == a.k = "inf"

IsFinite(a) == a.k = "fin"

Sign(a) == IF a.v > 0 THEN 1 ELSE IF a.v < 0 THEN -1 ELSE 0

AbsInt(n) == IF n < 0 THEN -n ELSE n

Inf(s) == IF s < 0 THEN NegInf ELSE PosInf

\* a value every magnitude is capped at: "beyond the finite range"
TooBig == MaxFinite + 1

\* a rounded magnitude n >= 0 with sign s as an f64: overflow gives infinity
Rounded(s, n) == IF n > MaxFinite THEN Inf(s) ELSE Fin(s * n)

SatAdd(a, b) == IF a > TooBig - b THEN TooBig ELSE a + b

SatMul(a, k) == IF a > TooBig \div k THEN TooBig ELSE a * k

\* (q, r) times a small factor k as quotient and remainder modulo m, r below m:
\* the new digit d is the number of j in 1..k-1 with j * m <= k * r, compared
\* as r >= ceiling(j * m / k) so that no intermediate exceeds 31 bits
TimesSmall(s, k, m) ==
    LET d == Cardinality({j \in 1..(k - 1) :
                            s.r >= j * (m \div k) + ((j * (m % k) + k - 1) \div k)})
    IN [q |-> SatAdd(SatMul(s.q, k), d),
        r |-> k * (s.r - d * (m \div k)) - d * (m % k)]

\* the exact quotient x * Scale / m as quotient and remainder by m (x >= 0,
\* m > 0), by long division in the digits 20, 20, 20, 25 of Scale; the
\* quotient capped at TooBig
DivScale(x, m) ==
    TimesSmall(TimesSmall(TimesSmall(TimesSmall([q |-> x \div m, r |-> x % m],
                                                20, m), 20, m), 20, m),
               Scale \div 8000, m)

\* the exact product x * y as quotient and remainder by Scale, for x and y in
\* 0..MaxFinite, by long multiplication in the limbs Scale and 1000 (no
\* intermediate exceeds 31 bits); the quotient capped at TooBig
MulScale(x, y) ==
    LET xh == x \div Scale
        xl == x % Scale
        yh == y \div Scale
        yl == y % Scale
        t1 == xl * (yl \div 1000)
        t2 == (t1 % (Scale \div 1000)) * 1000 + xl * (yl % 1000)
        low == (t1 \div (Scale \div 1000)) + (t2 \div Scale)
        high == IF xh * yh > MaxFinite \div Scale THEN TooBig ELSE xh * yh * Scale
    IN [q |-> SatAdd(SatAdd(high, SatAdd(xh * yl, xl * yh)), low),
        r |-> t2 % Scale]

\* round to nearest, ties to even
RoundNearestEven(qr, m) ==
    LET up == qr.r > m - qr.r \/ (qr.r = m - qr.r /\ qr.q % 2 = 1)
    IN IF up THEN SatAdd(qr.q, 1) ELSE qr.q

\* f64 `<`: false whenever an operand is NaN
F64Lt(a, b) ==
    IF IsNaN(a) \/ IsNaN(b) THEN FALSE
    ELSE IF IsInf(a) THEN a.v < 0 /\ ~(IsInf(b) /\ b.v < 0)
    ELSE IF IsInf(b) THEN b.v > 0
    ELSE a.v < b.v

\* f64::partial_cmp: None when an operand is NaN
F64PartialCmp(a, b) ==
    IF IsNaN(a) \/ IsNaN(b) THEN "None"
    ELSE IF F64Lt(a, b) THEN "Less"
    ELSE IF F64Lt(b, a) THEN "Greater"
    ELSE "Equal"

(***************************************************************************)
(* Float: the arithmetic operators (tuples.rs 22-75).                      *)
(***************************************************************************)
FloatNeg(a) == IF IsNaN(a) THEN NaN ELSE [k |-> a.k, v |-> -a.v]

FloatAdd(a, b) ==
    IF IsNaN(a) \/ IsNaN(b) THEN NaN
    ELSE IF IsInf(a) THEN (IF IsInf(b) /\ b.v # a.v THEN NaN ELSE a)
    ELSE IF IsInf(b) THEN b
    ELSE IF a.v > 0 /\ b.v > MaxFinite - a.v THEN PosInf
    ELSE IF a.v < 0 /\ b.v < (-MaxFinite) - a.v THEN NegInf
    ELSE Fin(a.v + b.v)

FloatSub(a, b) ==
    IF IsNaN(a) \/ IsNaN(b) THEN NaN
    ELSE IF IsInf(a) THEN (IF IsInf(b) /\ b.v = a.v THEN NaN ELSE a)
    ELSE IF IsInf(b) THEN Inf(-b.v)
    ELSE IF a.v > 0 /\ b.v < a.v - MaxFinite THEN PosInf
    ELSE IF a.v < 0 /\ b.v > a.v + MaxFinite THEN NegInf
    ELSE Fin(a.v - b.v)

FloatMul(a, b) ==
    IF IsNaN(a) \/ IsNaN(b) THEN NaN
    ELSE IF IsInf(a) \/ IsInf(b)
         THEN (IF Sign(a) = 0 \/ Sign(b) = 0 THEN NaN ELSE Inf(Sign(a) * Sign(b)))
    ELSE Rounded(Sign(a) * Sign(b),
                 RoundNearestEven(MulScale(AbsInt(a.v), AbsInt(b.v)), Scale))

\* a variant of FloatDiv that guards the zero divisor
FloatDivGuarded(a, b) ==
    IF IsNaN(a) \/ IsNaN(b) THEN NaN
    ELSE IF IsFinite(b) /\ b.v = 0 THEN Fin(0)
    ELSE IF IsInf(a)
         THEN (IF IsInf(b) THEN NaN ELSE Inf(IF b.v < 0 THEN -a.v ELSE a.v))
    ELSE IF IsInf(b) THEN Fin(0)
    ELSE Rounded(Sign(a) * Sign(b),
                 RoundNearestEven(DivScale(AbsInt(a.v), AbsInt(b.v)),
                                  AbsInt(b.v)))

FloatDiv(a, b) ==
    IF IsNaN(a) \/ IsNaN(b) THEN NaN
    ELSE IF IsInf(a)
         THEN (IF IsInf(b) THEN NaN ELSE Inf(IF b.v < 0 THEN -a.v ELSE a.v))
    ELSE IF IsInf(b) THEN Fin(0)
    ELSE IF b.v = 0 THEN (IF a.v = 0 THEN NaN ELSE Inf(Sign(a)))
    ELSE Rounded(Sign(a) * Sign(b),
                 RoundNearestEven(DivScale(AbsInt(a.v), AbsInt(b.v)),
                                  AbsInt(b.v)))

FloatAbs(a) == IF IsNaN(a) THEN NaN ELSE [k |-> a.k, v |-> AbsInt(a.v)]

FloatSqr(a) == FloatMul(a, a)

\* x * y <= v * Scale, for x, y, v >= 0
ProductAtMost(x, y, v) ==
    LET qr == MulScale(x, y)
    IN qr.q < v \/ (qr.q = v /\ qr.r = 0)

\* the largest r in lo..hi with r * r <= v * Scale (bisection)
RECURSIVE SqrtFloor(_, _, _)
SqrtFloor(v, lo, hi) ==
    IF lo >= hi THEN lo
    ELSE IF ProductAtMost(lo + ((hi - lo + 1) \div 2), lo + ((hi - lo + 1) \div 2), v)
         THEN SqrtFloor(v, lo + ((hi - lo + 1) \div 2), hi)
         ELSE SqrtFloor(v, lo, lo + ((hi - lo + 1) \div 2) - 1)

\* sqrt(v / Scale) in grid units, correctly rounded
SqrtRounded(v) ==
    LET r == SqrtFloor(v, 0, IF v > Scale THEN v ELSE Scale)
    IN IF MulScale(r, r + 1).q < v THEN r + 1 ELSE r

FloatSqrt(a) ==
    IF IsNaN(a) THEN NaN
    ELSE IF IsInf(a) THEN (IF a.v > 0 THEN PosInf ELSE NaN)
    ELSE IF a.v < 0 THEN NaN
    ELSE Fin(SqrtRounded(a.v))

(***************************************************************************)
(* Float: epsilon equality and ordering (tuples.rs 6-20).                  *)
(***************************************************************************)
\* a variant of FloatEq whose tolerance is inclusive: |a - b| <= 0.00001
FloatEqInclusive(a, b) ==
    F64Lt(FloatAbs(FloatSub(a, b)), Fin(EPSILON))
        \/ FloatAbs(FloatSub(a, b)) = Fin(EPSILON)

\* a variant of FloatEq that forgets the absolute value
FloatEqNoAbs(a, b) == F64Lt(FloatSub(a, b), Fin(EPSILON))

\* impl PartialEq for Float: (self.0 - other.0).abs() < 0.00001
FloatEq(a, b) == F64Lt(FloatAbs(FloatSub(a, b)), Fin(EPSILON))

\* a variant of PartialCmp that compares the raw f64 values
PartialCmpNoEpsilon(a, b) == F64PartialCmp(a, b)

\* impl PartialOrd for Float: Equal when ==, else the f64 comparison
PartialCmp(a, b) == IF FloatEq(a, b) THEN "Equal" ELSE F64PartialCmp(a, b)

\* the operators <, >, <= that PartialOrd derives from partial_cmp
FloatLt(a, b) == PartialCmp(a, b) = "Less"

FloatGt(a, b) == PartialCmp(a, b) = "Greater"

FloatLe(a, b) == PartialCmp(a, b) \in {"Less", "Equal"}

(***************************************************************************)
(* Tuple (tuples.rs 77-190).                                               *)
(***************************************************************************)
Tuple(x, y, z, w) == [x |-> x, y |-> y, z |-> z, w |-> w]

\* the macros point! and vector!
Point(x, y, z) == Tuple(x, y, z, Lit(1, 1))

Vector(x, y, z) == Tuple(x, y, z, Lit(0, 1))

\* #[derive(PartialEq)]: every field equal under Float's ==
TupleEq(a, b) ==
    FloatEq(a.x, b.x) /\ FloatEq(a.y, b.y) /\ FloatEq(a.z, b.z) /\ FloatEq(a.w, b.w)

TupleAdd(a, b) ==
    [x |-> FloatAdd(a.x, b.x), y |-> FloatAdd(a.y, b.y),
     z |-> FloatAdd(a.z, b.z), w |-> FloatAdd(a.w, b.w)]

\* a variant of TupleSub that subtracts x, y, z only
TupleSubKeepsW(a, b) ==
    [x |-> FloatSub(a.x, b.x), y |-> FloatSub(a.y, b.y),
     z |-> FloatSub(a.z, b.z), w |-> a.w]

TupleSub(a, b) ==
    [x |-> FloatSub(a.x, b.x), y |-> FloatSub(a.y, b.y),
     z |-> FloatSub(a.z, b.z), w |-> FloatSub(a.w, b.w)]

\* a variant of TupleMul that scales x, y, z only
TupleMulKeepsW(a, s) ==
    [x |-> FloatMul(a.x, s), y |-> FloatMul(a.y, s),
     z |-> FloatMul(a.z, s), w |-> a.w]

TupleMul(a, s) ==
    [x |-> FloatMul(a.x, s), y |-> FloatMul(a.y, s),
     z |-> FloatMul(a.z, s), w |-> FloatMul(a.w, s)]

TupleNeg(a) ==
    [x |-> FloatNeg(a.x), y |-> FloatNeg(a.y),
     z |-> FloatNeg(a.z), w |-> FloatNeg(a.w)]

IsPoint(t) == FloatEq(t.w, Lit(1, 1))

IsVector(t) == FloatEq(t.w, Lit(0, 1))

\* a variant of Magnitude that forgets the square root
MagnitudeNoSqrt(t) ==
    FloatAdd(FloatAdd(FloatAdd(FloatSqr(t.x), FloatSqr(t.y)), FloatSqr(t.z)),
             FloatSqr(t.w))

Magnitude(t) ==
    FloatSqrt(FloatAdd(FloatAdd(FloatAdd(FloatSqr(t.x), FloatSqr(t.y)),
                                FloatSqr(t.z)),
                       FloatSqr(t.w)))

Normalize(t) ==
    LET magnitude == Magnitude(t)
    IN [x |-> FloatDiv(t.x, magnitude), y |-> FloatDiv(t.y, magnitude),
        z |-> FloatDiv(t.z, magnitude), w |-> FloatDiv(t.w, magnitude)]

\* a variant of Cross whose w is the product of the inputs' w
CrossScaledW(a, b) ==
    [x |-> FloatSub(FloatMul(a.y, b.z), FloatMul(a.z, b.y)),
     y |-> FloatSub(FloatMul(a.z, b.x), FloatMul(a.x, b.z)),
     z |-> FloatSub(FloatMul(a.x, b.y), FloatMul(a.y, b.x)),
     w |-> FloatMul(a.w, b.w)]

Cross(a, b) ==
    [x |-> FloatSub(FloatMul(a.y, b.z), FloatMul(a.z, b.y)),
     y |-> FloatSub(FloatMul(a.z, b.x), FloatMul(a.x, b.z)),
     z |-> FloatSub(FloatMul(a.x, b.y), FloatMul(a.y, b.x)),
     w |-> Lit(0, 1)]

(***************************************************************************)
(* Chapter 1: the projectile loop (main.rs 24-46).                         *)
(***************************************************************************)
\* a variant of Tick that updates the velocity before the position
TickVelocityFirst(env, proj) ==
    [position |-> TupleAdd(proj.position,
                           TupleAdd(TupleAdd(proj.velocity, env.gravity), env.wind)),
     velocity |-> TupleAdd(TupleAdd(proj.velocity, env.gravity), env.wind)]

\* a variant of Tick that applies gravity but not wind
TickNoWind(env, proj) ==
    [position |-> TupleAdd(proj.position, proj.velocity),
     velocity |-> TupleAdd(proj.velocity, env.gravity)]

\* fn tick(env, proj)
Tick(env, proj) ==
    [position |-> TupleAdd(proj.position, proj.velocity),
     velocity |-> TupleAdd(TupleAdd(proj.velocity, env.gravity), env.wind)]

\* float!(num / den): the macro main.rs uses and no file of src/ defines; it
\* wraps a literal in a Float, as tuple! does with Float($x)
float(num, den) == Lit(num, den)

\* let mut p = Projectile { .. }
Projectile0 ==
    [position |-> Point(Lit(0, 1), Lit(1, 1), Lit(0, 1)),
     velocity |-> TupleMul(Normalize(Vector(Lit(1, 1), Lit(1, 1), Lit(0, 1))),
                           float(100, 1))]

\* let e = Env { .. }
Env0 ==
    [gravity |-> Vector(Lit(0, 1), Lit(-1, 1), Lit(0, 1)),
     wind |-> Vector(Lit(-1, 100), Lit(0, 1), Lit(0, 1))]

NoCall == [op |-> "none"]

\* putting_it_all_together up to the loop: pc = "loop" is the while test
Init ==
    /\ p = Projectile0
    /\ e = Env0
    /\ ticks = 0
    /\ pc = "loop"
    /\ call = NoCall

\* while p.position.y > float!(0.0) { p = tick(&e, p); ticks += 1; .. }
LoopBody ==
    /\ pc = "loop"
    /\ FloatGt(p.position.y, float(0, 1))
    /\ p' = Tick(e, p)
    /\ ticks' = ticks + 1
    /\ UNCHANGED <<e, pc, call>>

\* the while test fails: the function returns
LoopExit ==
    /\ pc = "loop"
    /\ ~FloatGt(p.position.y, float(0, 1))
    /\ pc' = "done"
    /\ UNCHANGED <<p, e, ticks, call>>

Next == LoopBody \/ LoopExit

Spec == Init /\ [][Next]_vars

\* main runs the loop to its end: a sequential program takes its next step
FairSpec == Spec /\ WF_vars(Next)

(***************************************************************************)
(* The library used directly: one call of an operation of tuples.rs on     *)
(* inputs drawn from bounded sets, its result recorded in `call`.          *)
(***************************************************************************)
\* grid values within MaxInput units of a centre
MaxInput == 3

\* whole-number components -MaxWhole .. MaxWhole
MaxWhole == 1

\* components within MaxTiny units of zero for normalize
MaxTiny == 1

Near(c, n) == {Fin(c + d) : d \in (-n)..n}

Whole(n) == {Lit(k, 1) : k \in (-n)..n}

Specials == {NaN, PosInf, NegInf, Fin(MaxFinite), Fin(-MaxFinite)}

ScalarInputs == Near(0, MaxInput) \cup Specials

\* the scalars a tuple is multiplied by: around 1.0, around 0.0, a few others
FactorInputs ==
    Near(Scale, MaxInput) \cup Near(0, 1)
        \cup {Lit(7, 2), Lit(1, 2), Lit(-3, 1), Fin(MaxFinite), PosInf, NaN}

Tuples(xs, ws) == {Tuple(x, y, z, w) : x \in xs, y \in xs, z \in xs, w \in ws}

PointW == {Lit(1, 1)}

VectorW == {Lit(0, 1)}

LeftOperands == Tuples(Whole(MaxWhole) \cup {NaN}, PointW \cup VectorW)

RightOperands == Tuples({Lit(5, 1), Fin(MaxFinite)}, PointW \cup VectorW)

MulOperands == Tuples(Whole(MaxWhole), PointW \cup VectorW \cup {Lit(-4, 1)})

MagnitudeOperands ==
    Tuples(Whole(MaxWhole + 1) \cup {Fin(1), Fin(MaxFinite)}, PointW \cup VectorW)

NormalizeOperands ==
    Tuples(Near(0, MaxTiny) \cup {Lit(1, 1), Lit(-2, 1)},
           Near(0, MaxTiny) \cup {Lit(1, 1), Lit(-2, 1)})

CrossLeft ==
    Tuples(Whole(MaxWhole) \cup {NaN, Fin(MaxFinite)},
           PointW \cup VectorW \cup {Lit(-4, 1)})

CrossRight == Tuples({Fin(Scale + 1), Lit(-3, 1)}, PointW \cup VectorW)

\* the tuple one scalar stands for in a comparison of tuples
Along(x) == Vector(x, Lit(0, 1), Lit(0, 1))

OpsInit ==
    /\ p = Projectile0
    /\ e = Env0
    /\ ticks = 0
    /\ pc = "lib"
    /\ call = NoCall

Idle == pc = "lib" /\ call = NoCall

\* a == b on Floats and on Tuples, over every pairing of three values
CallEq ==
    /\ Idle
    /\ \E a \in ScalarInputs, b \in ScalarInputs, c \in ScalarInputs :
          call' = [op |-> "eq", a |-> a, b |-> b, c |-> c,
                   aa |-> FloatEq(a, a), ab |-> FloatEq(a, b),
                   ba |-> FloatEq(b, a), bc |-> FloatEq(b, c),
                   ac |-> FloatEq(a, c),
                   taa |-> TupleEq(Along(a), Along(a)),
                   tab |-> TupleEq(Along(a), Along(b)),
                   tba |-> TupleEq(Along(b), Along(a)),
                   tbc |-> TupleEq(Along(b), Along(c)),
                   tac |-> TupleEq(Along(a), Along(c))]
    /\ UNCHANGED <<p, e, ticks, pc>>

\* a.partial_cmp(&b), a < b, a > b, a == b
CallCmp ==
    /\ Idle
    /\ \E a \in ScalarInputs, b \in ScalarInputs :
          call' = [op |-> "cmp", a |-> a, b |-> b,
                   ord |-> PartialCmp(a, b), lt |-> FloatLt(a, b),
                   gt |-> FloatGt(a, b), eq |-> FloatEq(a, b)]
    /\ UNCHANGED <<p, e, ticks, pc>>

\* a + b
CallAdd ==
    /\ Idle
    /\ \E a \in LeftOperands, b \in RightOperands :
          call' = [op |-> "add", a |-> a, b |-> b, out |-> TupleAdd(a, b),
                   isPoint |-> IsPoint(TupleAdd(a, b)),
                   isVector |-> IsVector(TupleAdd(a, b))]
    /\ UNCHANGED <<p, e, ticks, pc>>

\* a - b
CallSub ==
    /\ Idle
    /\ \E a \in LeftOperands, b \in RightOperands :
          call' = [op |-> "sub", a |-> a, b |-> b, out |-> TupleSub(a, b),
                   isPoint |-> IsPoint(TupleSub(a, b)),
                   isVector |-> IsVector(TupleSub(a, b))]
    /\ UNCHANGED <<p, e, ticks, pc>>

\* t * s
CallMul ==
    /\ Idle
    /\ \E t \in MulOperands, s \in FactorInputs :
          call' = [op |-> "mul", t |-> t, s |-> s, out |-> TupleMul(t, s),
                   isPoint |-> IsPoint(TupleMul(t, s)),
                   isVector |-> IsVector(TupleMul(t, s))]
    /\ UNCHANGED <<p, e, ticks, pc>>

\* t.magnitude()
CallMagnitude ==
    /\ Idle
    /\ \E t \in MagnitudeOperands :
          call' = [op |-> "magnitude", t |-> t, out |-> Magnitude(t)]
    /\ UNCHANGED <<p, e, ticks, pc>>

\* t.normalize()
CallNormalize ==
    /\ Idle
    /\ \E t \in NormalizeOperands :
          call' = [op |-> "normalize", t |-> t, mag |-> Magnitude(t),
                   out |-> Normalize(t)]
    /\ UNCHANGED <<p, e, ticks, pc>>

\* a.cross(b) and -(b.cross(a))
CallCross ==
    /\ Idle
    /\ \E a \in CrossLeft, b \in CrossRight :
          call' = [op |-> "cross", a |-> a, b |-> b, out |-> Cross(a, b),
                   negrev |-> TupleNeg(Cross(b, a)),
                   same |-> TupleEq(Cross(a, b), TupleNeg(Cross(b, a)))]
    /\ UNCHANGED <<p, e, ticks, pc>>

OpsNext ==
    \/ CallEq
    \/ CallCmp
    \/ CallAdd
    \/ CallSub
    \/ CallMul
    \/ CallMagnitude
    \/ CallNormalize
    \/ CallCross

OpsSpec == OpsInit /\ [][OpsNext]_vars

(***************************************************************************)
(* Properties.                                                             *)
(***************************************************************************)
Fields == {"x", "y", "z", "w"}

\* |x - y| < EPSILON over the integers (no f64 operation involved)
WithinEpsilon(x, y) == (x >= y => x < y + EPSILON) /\ (y >= x => y < x + EPSILON)

\* the tuple's w is exactly the whole number k: k = 1 a point, k = 0 a vector
HasW(t, k) == t.w = Lit(k, 1)

\* the real number n as an f64: infinite past the finite range
OfReal(n) ==
    IF n > MaxFinite THEN PosInf ELSE IF n < -MaxFinite THEN NegInf ELSE Fin(n)

\* k * n as an f64, for a small whole k
OfProduct(k, n) ==
    IF k = 0 \/ n = 0 THEN Fin(0)
    ELSE IF AbsInt(n) > MaxFinite \div AbsInt(k)
         THEN Inf((IF k < 0 THEN -1 ELSE 1) * (IF n < 0 THEN -1 ELSE 1))
    ELSE Fin(k * n)

\* C1: for finite a and b, Float(a) == Float(b) exactly when |a - b| is
\* strictly below 0.00001; a difference of exactly 0.00001 is not equal.
C1_EqIffWithinEpsilon ==
    (call.op = "eq" /\ IsFinite(call.a) /\ IsFinite(call.b))
        => (call.ab <=> WithinEpsilon(call.a.v, call.b.v))

C1_Witness ==
    /\ call.op = "eq"
    /\ call.a = Fin(EPSILON)
    /\ call.b = Fin(0)
    /\ ~call.ab

\* C2: for finite a and b, partial_cmp is Equal exactly when a == b under the
\* tolerance and the natural order of a and b otherwise; exactly one of
\* a < b, a == b, a > b holds; values within 0.00001 are never Less or Greater.
C2_CompareRespectsEpsilon ==
    (call.op = "cmp" /\ IsFinite(call.a) /\ IsFinite(call.b))
        => LET within == WithinEpsilon(call.a.v, call.b.v)
           IN /\ call.ord = "Equal" <=> within
              /\ call.ord = "Equal" <=> call.eq
              /\ ~within => call.ord = (IF call.a.v < call.b.v THEN "Less" ELSE "Greater")
              /\ Cardinality({r \in {"lt", "eq", "gt"} : call[r]}) = 1
              /\ call.lt <=> call.ord = "Less"
              /\ call.gt <=> call.ord = "Greater"
              /\ within => ~call.lt /\ ~call.gt

C2_Witness ==
    /\ call.op = "cmp"
    /\ call.a = Fin(0)
    /\ call.b = Fin(1)
    /\ call.ord = "Equal"
    /\ ~call.lt

\* one component of a + b or a - b is the f64 sum or difference
Componentwise(op, x, y, out) ==
    IF IsNaN(x) \/ IsNaN(y) THEN out = NaN
    ELSE (IsFinite(x) /\ IsFinite(y))
            => out = OfReal(IF op = "add" THEN x.v + y.v ELSE x.v - y.v)

AllFinite(t) == \A f \in Fields : IsFinite(t[f])

\* C4 as stated: for all tuples a and b, a.cross(b) == -(b.cross(a)).
C4_AntiCommutativeForAll == call.op = "cross" => call.same

\* C4 amended: whenever a.cross(b) has only finite components (no NaN or
\* infinity among the x, y, z of a and b, and no overflow), a.cross(b) ==
\* -(b.cross(a)) whatever the w of a and b, and the w of both sides equals 0.
C4_AntiCommutativeWhenFinite ==
    (call.op = "cross" /\ AllFinite(call.out))
        => /\ call.same
           /\ call.out.w = Fin(0)
           /\ FloatEq(call.negrev.w, Fin(0))
           /\ \A f \in Fields : call.negrev[f] = call.out[f]

C4_Witness ==
    /\ call.op = "cross"
    /\ call.a = Tuple(Lit(1, 1), Lit(-1, 1), Lit(0, 1), Lit(-4, 1))
    /\ HasW(call.b, 1)
    /\ call.b.x = Lit(-3, 1) /\ call.b.y = Fin(Scale + 1)
    /\ AllFinite(call.out)
    /\ call.out.z # Fin(0)
    /\ call.same

\* sqrt(x^2 + y^2 + z^2), the standard 3-D magnitude, in f64 arithmetic
SumOfSquares3D(t) == FloatAdd(FloatAdd(FloatSqr(t.x), FloatSqr(t.y)), FloatSqr(t.z))

Magnitude3D(t) == FloatSqrt(SumOfSquares3D(t))

\* two f64 results match: the same value, or equal under Float's ==
Matches(a, b) == a = b \/ FloatEq(a, b)

\* C5 as stated: for every point (w = 1) or vector (w = 0), magnitude(t)
\* matches the standard 3-D magnitude.
C5_Matches3DForPointsAndVectors ==
    (call.op = "magnitude" /\ (HasW(call.t, 1) \/ HasW(call.t, 0)))
        => Matches(call.out, Magnitude3D(call.t))

\* C5 amended: for every vector (w = 0), magnitude(t) is the standard 3-D
\* magnitude; for a point (w = 1) it is sqrt(x^2 + y^2 + z^2 + 1).
C5_Matches3DForVectors ==
    call.op = "magnitude"
        => /\ HasW(call.t, 0) => call.out = Magnitude3D(call.t)
           /\ HasW(call.t, 1)
                 => call.out = FloatSqrt(FloatAdd(SumOfSquares3D(call.t), Lit(1, 1)))

C5_Witness ==
    /\ call.op = "magnitude"
    /\ call.t = Vector(Lit(1, 1), Lit(-2, 1), Lit(2, 1))
    /\ call.out = Lit(3, 1)

\* one component k (a whole number) times s
Scaled(x, s, out) ==
    IF IsNaN(s) THEN out = NaN
    ELSE IF IsInf(s) THEN out = (IF x.v = 0 THEN NaN ELSE Inf(Sign(x) * Sign(s)))
    ELSE out = OfProduct(x.v \div Scale, s.v)

Terminated == pc = "done"

\* C7: the projectile loop terminates, after 143 ticks; when it exits
\* position.y is not greater than Float(0.0) (position.y <= 0 under the Float
\* ordering), and position.y > 0 held before every executed tick.
C7_LoopTerminates ==
    /\ <>Terminated
    /\ [](Terminated => /\ ticks = 143
                        /\ ~FloatGt(p.position.y, Lit(0, 1))
                        /\ FloatLe(p.position.y, Lit(0, 1)))
    /\ [][ticks' # ticks => FloatGt(p.position.y, Lit(0, 1)) /\ ticks' = ticks + 1]_vars

C7_Witness == Terminated /\ ticks = 143 /\ p.position.y.v < 0

IsFloat(x) ==
    \/ x \in {NaN, PosInf, NegInf}
    \/ DOMAIN x = {"k", "v"} /\ x.k = "fin" /\ x.v \in (-MaxFinite)..MaxFinite

ZeroTuple == Tuple(Fin(0), Fin(0), Fin(0), Fin(0))

\* C8: normalize never fails; on a tuple of magnitude zero it returns IEEE
\* special values, NaN (0/0) in every component when all four are zero.
C8_NormalizeZeroGivesNaN ==
    call.op = "normalize"
        => /\ \A f \in Fields : IsFloat(call.out[f])
           /\ call.t = ZeroTuple => call.mag = Fin(0)
           /\ call.mag = Fin(0)
                 => \A f \in Fields :
                       call.out[f] = (IF call.t[f] = Fin(0) THEN NaN
                                      ELSE Inf(Sign(call.t[f])))

C8_Witness ==
    /\ call.op = "normalize"
    /\ call.t = ZeroTuple
    /\ \A f \in Fields : call.out[f] = NaN

\* C9: in every state of the projectile loop position is a point (w = 1),
\* velocity a vector (w = 0), gravity and wind are as constructed, and the
\* velocity after n ticks is the initial one with y lowered by n * 1 and x by
\* n * 0.01, z staying 0.
C9_LoopInvariant ==
    pc \in {"loop", "done"}
        => /\ IsPoint(p.position) /\ HasW(p.position, 1)
           /\ IsVector(p.velocity) /\ HasW(p.velocity, 0)
           /\ e = Env0
           /\ p.velocity.x = Fin(Projectile0.velocity.x.v - ticks * (Scale \div 100))
           /\ p.velocity.y = Fin(Projectile0.velocity.y.v - ticks * Scale)
           /\ p.velocity.z = Fin(0)

C9_Witness == pc = "loop" /\ ticks = 100 /\ p.velocity.y.v < 0

\* C10: over finite values Float's == (and with it Tuple's ==) is reflexive
\* and symmetric; it is not transitive (the witness).
C10_EqReflexiveSymmetric ==
    (call.op = "eq" /\ IsFinite(call.a) /\ IsFinite(call.b))
        => /\ call.aa /\ call.taa
           /\ call.ab <=> call.ba
           /\ call.tab <=> call.tba
           /\ call.tab <=> call.ab

C10_NotTransitiveWitness ==
    /\ call.op = "eq"
    /\ IsFinite(call.a) /\ IsFinite(call.b) /\ IsFinite(call.c)
    /\ call.ab /\ call.bc /\ ~call.ac
    /\ call.tab /\ call.tbc /\ ~call.tac

=============================================================================
